---------------------------- MODULE Spec2Model ----------------------------
(***************************************************************************)
(* Model of src/worker/worker.js: the fetch handler handleRequest (method  *)
(* gate, response-cache probe, validation, engine warm-up and origin-cache *)
(* probe, origin fetch, transform, cache population) and the validator     *)
(* getParams with its helpers getUrlExt, getColor and getMimeType.         *)
(*                                                                         *)
(* Strings of the program are sequences of one-character strings, so that  *)
(* parsing and lower-casing are computed and not assumed.  JavaScript      *)
(* numbers are records [k, n, d]: k = "num" is the rational n/d, k = "nan" *)
(* is NaN, k = "inf" is +Infinity (n = 1) or -Infinity (n = -1).           *)
(***************************************************************************)
EXTENDS Integers, Sequences, FiniteSets, TLC

(***************************************************************************)
(* Characters and strings                                                  *)
(***************************************************************************)
UpperCase == <<"A","B","C","D","E","F","G","H","I","J","K","L","M",
               "N","O","P","Q","R","S","T","U","V","W","X","Y","Z">>

LowerCase == <<"a","b","c","d","e","f","g","h","i","j","k","l","m",
               "n","o","p","q","r","s","t","u","v","w","x","y","z">>

DigitChars == <<"0","1","2","3","4","5","6","7","8","9">>

Range(s) == { s[i] : i \in 1..Len(s) }

WordChars == Range(UpperCase) \cup Range(LowerCase) \cup Range(DigitChars) \cup {"_"}

WhiteSpace == {" "}

\* String.prototype.toLowerCase on one character
ToLowerChar(c) ==
    IF \E i \in 1..Len(UpperCase) : UpperCase[i] = c
    THEN LowerCase[CHOOSE i \in 1..Len(UpperCase) : UpperCase[i] = c]
    ELSE c

\* String.prototype.toLowerCase
toLowerCase(s) == [i \in 1..Len(s) |-> ToLowerChar(s[i])]

\* the string without its first n characters
Drop(s, n) == SubSeq(s, n + 1, Len(s))

\* length of the longest prefix of s made of characters of set
PrefixLen(s, set) ==
    IF \E i \in 1..Len(s) : s[i] \notin set
    THEN (CHOOSE i \in 1..Len(s) : s[i] \notin set /\ \A j \in 1..(i - 1) : s[j] \in set) - 1
    ELSE Len(s)

StartsWith(s, p) == Len(s) >= Len(p) /\ SubSeq(s, 1, Len(p)) = p

(***************************************************************************)
(* JavaScript numbers                                                      *)
(***************************************************************************)
NaN == [k |-> "nan", n |-> 0, d |-> 1]

Num(i) == [k |-> "num", n |-> i, d |-> 1]

Frac(i, den) == [k |-> "num", n |-> i, d |-> den]

Infinity(sign) == [k |-> "inf", n |-> sign, d |-> 1]

\* a > b of JavaScript: false as soon as one side is NaN
JsGt(a, b) ==
    /\ a.k # "nan"
    /\ b.k # "nan"
    /\ IF a.k = "inf" /\ b.k = "inf" THEN a.n > b.n
       ELSE IF a.k = "inf" THEN a.n > 0
       ELSE IF b.k = "inf" THEN b.n < 0
       ELSE a.n * b.d > b.n * a.d

JsLt(a, b) == JsGt(b, a)

JsEq(a, b) ==
    /\ a.k # "nan"
    /\ b.k # "nan"
    /\ IF a.k = "inf" \/ b.k = "inf" THEN a.k = b.k /\ a.n = b.n
       ELSE a.n * b.d = b.n * a.d

JsGe(a, b) == JsGt(a, b) \/ JsEq(a, b)

JsLe(a, b) == JsGe(b, a)

\* ToBoolean of a number: NaN and 0 are falsy
Truthy(a) == a.k = "inf" \/ (a.k = "num" /\ a.n # 0)

\* value of a digit character in the given radix, -1 when it is none
DigitVal(c, radix) ==
    LET lc == ToLowerChar(c)
        hexDigits == DigitChars \o SubSeq(LowerCase, 1, 6)
    IN  IF \E i \in 1..radix : hexDigits[i] = lc
        THEN (CHOOSE i \in 1..radix : hexDigits[i] = lc) - 1
        ELSE -1

DecimalDigits == { c \in WordChars : DigitVal(c, 10) >= 0 }

HexDigits == { c \in WordChars : DigitVal(c, 16) >= 0 }

DigitSet(radix) == IF radix = 16 THEN HexDigits ELSE DecimalDigits

RECURSIVE DigitsValue(_, _)
DigitsValue(s, radix) ==
    IF s = <<>> THEN 0
    ELSE DigitsValue(SubSeq(s, 1, Len(s) - 1), radix) * radix + DigitVal(s[Len(s)], radix)

RECURSIVE Pow10(_)
Pow10(n) == IF n = 0 THEN 1 ELSE 10 * Pow10(n - 1)

\* the sign prefix of a numeric string: [sign, rest]
SignOf(s) ==
    IF s # <<>> /\ s[1] = "-" THEN [sign |-> -1, rest |-> Drop(s, 1)]
    ELSE IF s # <<>> /\ s[1] = "+" THEN [sign |-> 1, rest |-> Drop(s, 1)]
    ELSE [sign |-> 1, rest |-> s]

\* parseInt(str, radix): leading white space, a sign, for radix 16 a 0x prefix,
\* then the longest run of digits; NaN when there is no digit
parseInt(str, radix) ==
    LET t == Drop(str, PrefixLen(str, WhiteSpace))
        sg == SignOf(t)
        u == IF radix = 16 /\ Len(sg.rest) >= 2 /\ sg.rest[1] = "0"
                  /\ ToLowerChar(sg.rest[2]) = "x"
             THEN Drop(sg.rest, 2) ELSE sg.rest
        len == PrefixLen(u, DigitSet(radix))
    IN  IF len = 0 THEN NaN
        ELSE Num(sg.sign * DigitsValue(SubSeq(u, 1, len), radix))

InfinityWord == <<"I","n","f","i","n","i","t","y">>

\* parseFloat(str): leading white space, a sign, then Infinity or the longest
\* decimal literal (digits, an optional point and digits); NaN when there is
\* none.  An exponent part is not read: the inputs drawn below carry none.
parseFloat(str) ==
    LET t == Drop(str, PrefixLen(str, WhiteSpace))
        sg == SignOf(t)
        ilen == PrefixLen(sg.rest, Range(DigitChars))
        afterInt == Drop(sg.rest, ilen)
        hasPoint == afterInt # <<>> /\ afterInt[1] = "."
        flen == IF hasPoint THEN PrefixLen(Drop(afterInt, 1), Range(DigitChars)) ELSE 0
        digits == SubSeq(sg.rest, 1, ilen) \o SubSeq(afterInt, 2, 1 + flen)
    IN  IF StartsWith(sg.rest, InfinityWord) THEN Infinity(sg.sign)
        ELSE IF ilen + flen = 0 THEN NaN
        ELSE Frac(sg.sign * DigitsValue(digits, 10), Pow10(flen))


(***************************************************************************)
(* URLs                                                                    *)
(***************************************************************************)
Str_http == <<"h","t","t","p">>

Str_https == <<"h","t","t","p","s">>

SpecialSchemes == {Str_http, Str_https}

SchemeChars == (WordChars \ {"_"}) \cup {"+", "-", "."}

HostChars == (WordChars \ {"_"}) \cup {"-", "."}

\* new URL(str) with no base: [ok, href].  It throws (ok = FALSE) unless str
\* starts with a scheme and a colon, and for a special scheme has a host.  The
\* href is normalised: scheme and host in lower case, "//" after a special
\* scheme, "/" for an empty path.  Ports, credentials, queries and fragments
\* are not read: the origins drawn below carry none.
ParseURL(str) ==
    LET s == Drop(str, PrefixLen(str, WhiteSpace))
        slen == PrefixLen(s, SchemeChars)
        scheme == toLowerCase(SubSeq(s, 1, slen))
        rest == Drop(s, slen + 1)
        afterSlashes == Drop(rest, PrefixLen(rest, {"/", "\\"}))
        hlen == PrefixLen(afterSlashes, HostChars)
        host == toLowerCase(SubSeq(afterSlashes, 1, hlen))
        path == Drop(afterSlashes, hlen)
        failure == [ok |-> FALSE, href |-> <<>>]
    IN  IF slen = 0 \/ s[1] \notin (Range(UpperCase) \cup Range(LowerCase)) THEN failure
        ELSE IF Len(s) = slen \/ s[slen + 1] # ":" THEN failure
        ELSE IF scheme \notin SpecialSchemes
             THEN [ok |-> TRUE, href |-> scheme \o <<":">> \o rest]
        ELSE IF hlen = 0 \/ (path # <<>> /\ path[1] # "/") THEN failure
        ELSE [ok |-> TRUE,
              href |-> scheme \o <<":", "/", "/">> \o host
                       \o (IF path = <<>> THEN <<"/">> ELSE path)]

\* URLSearchParams.has(name) and .get(name): search is the sequence of
\* [name, value] pairs of the query string, get returns the first value
Has(search, name) == \E i \in 1..Len(search) : search[i].name = name

Get(search, name) ==
    search[CHOOSE i \in 1..Len(search) :
               search[i].name = name /\ \A j \in 1..(i - 1) : search[j].name # name].value

(***************************************************************************)
(* getUrlExt, getColor, getMimeType                                        *)
(***************************************************************************)
Str_png == <<"p","n","g">>

Str_jpg == <<"j","p","g">>

Str_jpeg == <<"j","p","e","g">>

Str_fill == <<"f","i","l","l">>

Str_fit == <<"f","i","t">>

Str_limit == <<"l","i","m","i","t">>

VALID_FORMATS == <<Str_png, Str_jpg, Str_jpeg>>

VALID_MODES == <<Str_fill, Str_fit, Str_limit>>

Includes(list, x) == \E i \in 1..Len(list) : list[i] = x

\* length of the longest suffix of s made of characters of set
SuffixLen(s, set) ==
    IF \E i \in 1..Len(s) : s[i] \notin set
    THEN Len(s) - (CHOOSE i \in 1..Len(s) : s[i] \notin set /\ \A j \in (i + 1)..Len(s) : s[j] \in set)
    ELSE Len(s)

\* getUrlExt: pathname.match(/\.(\w+)$/), the group in lower case; the empty
\* string stands for null (no match), which the caller tests for truthiness
getUrlExt(pathname) ==
    LET n == SuffixLen(pathname, WordChars)
    IN  IF n >= 1 /\ Len(pathname) > n /\ pathname[Len(pathname) - n] = "."
        THEN toLowerCase(SubSeq(pathname, Len(pathname) - n + 1, Len(pathname)))
        ELSE <<>>

\* hexStr.split("").map(c => c + c).join("")
DoubleChars(s) == [i \in 1..(2 * Len(s)) |-> s[(i + 1) \div 2]]

\* getColor: [ok, rgb].  ok = FALSE is the undefined result.  Each of the three
\* loop rounds parses hexStr.slice(0, 2); hex === NaN is false for every hex.
getColor(hexStr) ==
    LET h == IF Len(hexStr) = 3 THEN DoubleChars(hexStr) ELSE hexStr
        hex == parseInt(SubSeq(h, 1, 2), 16)
    IN  IF Len(h) = 6
        THEN [ok |-> TRUE, rgb |-> [i \in 1..3 |-> hex]]
        ELSE [ok |-> FALSE, rgb |-> <<>>]

\* getMimeType; format is a member of VALID_FORMATS or <<>> for undefined
getMimeType(format) ==
    IF format = Str_png THEN "image/png"
    ELSE IF format = Str_jpg THEN "image/jpeg"
    ELSE "application/octet-stream"

(***************************************************************************)
(* getParams                                                               *)
(***************************************************************************)
\* an entry of params.errors: the message and, for the extension message,
\* the interpolated extension
Err(msg) == [msg |-> msg, arg |-> <<>>]

ErrExt(format) == [msg |-> "image .extension must be one of ${format} png, jpg, jpeg",
                   arg |-> format]

ErrQuality == Err("quality must be a number between 40 and 100")

ErrOrigin == Err("origin must be a valid image URL")

ErrWidth == Err("width must be a positive number")

ErrHeight == Err("height must be a positive number")

ErrSize == Err("width and/or height must be provided")

ErrDx == Err("dx must be a number between -1.0 and 1.0 (default: 0)")

ErrDy == Err("dy must be between -1.0 and 1.0 (default: 0)")

ErrScale == Err("scale must be a non-zero number up to 10 (default: 1)")

ErrMode == Err("mode must be one of fill, fit, limit")

ErrBg == Err("bg must be a valid hex color between 000 and ffffff")

\* each step returns the field's value v and the errors it pushes
FormatStep(req) ==
    LET format == getUrlExt(req.pathname)
    IN  IF format # <<>>
        THEN [v |-> format,
              errs |-> IF ~Includes(VALID_FORMATS, format) THEN <<ErrExt(format)>> ELSE <<>>]
        ELSE [v |-> <<>>, errs |-> <<>>]

QualityStep(req) ==
    IF Has(req.search, "quality")
    THEN LET quality == parseInt(Get(req.search, "quality"), 10)
         IN  [v |-> quality,
              errs |-> IF JsGt(quality, Num(100)) \/ JsLt(quality, Num(40))
                       THEN <<ErrQuality>> ELSE <<>>]
    ELSE [v |-> Num(90), errs |-> <<>>]

\* a validator that checks the origin only when the parameter is given
OriginStep_onlyWhenPresent(req) ==
    LET url == IF Has(req.search, "origin")
               THEN ParseURL(Get(req.search, "origin"))
               ELSE [ok |-> TRUE, href |-> <<>>]
    IN  [v |-> [set |-> url.ok, href |-> url.href],
         errs |-> IF ~url.ok THEN <<ErrOrigin>> ELSE <<>>]

\* v is [set, href]: set = FALSE is the initial "", which is falsy
OriginStep(req) ==
    LET url == IF Has(req.search, "origin")
               THEN ParseURL(Get(req.search, "origin"))
               ELSE [ok |-> FALSE, href |-> <<>>]
    IN  [v |-> [set |-> url.ok, href |-> url.href],
         errs |-> IF ~url.ok THEN <<ErrOrigin>> ELSE <<>>]

WidthStep(req) ==
    IF Has(req.search, "width")
    THEN LET width == parseInt(Get(req.search, "width"), 10)
         IN  [v |-> width,
              errs |-> IF ~JsGt(width, Num(-1)) THEN <<ErrWidth>> ELSE <<>>]
    ELSE [v |-> Num(0), errs |-> <<>>]

HeightStep(req) ==
    IF Has(req.search, "height")
    THEN LET height == parseInt(Get(req.search, "height"), 10)
         IN  [v |-> height,
              errs |-> IF ~JsGt(height, Num(-1)) THEN <<ErrHeight>> ELSE <<>>]
    ELSE [v |-> Num(0), errs |-> <<>>]

SizeErrs(width, height) ==
    IF ~(Truthy(width) \/ Truthy(height)) THEN <<ErrSize>> ELSE <<>>

\* a validator that holds dx to the range its message names
DxStep_bounded(req) ==
    IF Has(req.search, "dx")
    THEN LET dx == parseFloat(Get(req.search, "dx"))
         IN  [v |-> dx,
              errs |-> IF ~(JsGe(dx, Num(-1)) /\ JsLe(dx, Num(1))) THEN <<ErrDx>> ELSE <<>>]
    ELSE [v |-> Num(0), errs |-> <<>>]

DxStep(req) ==
    IF Has(req.search, "dx")
    THEN LET dx == parseFloat(Get(req.search, "dx"))
         IN  [v |-> dx,
              errs |-> IF ~(JsGe(dx, Num(-1)) \/ JsLe(dx, Num(1))) THEN <<ErrDx>> ELSE <<>>]
    ELSE [v |-> Num(0), errs |-> <<>>]

DyStep(req) ==
    IF Has(req.search, "dy")
    THEN LET dy == parseFloat(Get(req.search, "dy"))
         IN  [v |-> dy,
              errs |-> IF ~(JsGe(dy, Num(-1)) \/ JsLe(dy, Num(1))) THEN <<ErrDy>> ELSE <<>>]
    ELSE [v |-> Num(0), errs |-> <<>>]

ScaleStep(req) ==
    IF Has(req.search, "scale")
    THEN LET scale == parseFloat(Get(req.search, "scale"))
         IN  [v |-> scale,
              errs |-> IF ~(JsGt(scale, Num(0)) \/ JsLe(scale, Num(10)))
                       THEN <<ErrScale>> ELSE <<>>]
    ELSE [v |-> Num(1), errs |-> <<>>]

\* a validator that compares the mode as it was written
ModeStep_caseSensitive(req) ==
    LET mode == IF Has(req.search, "mode") THEN Get(req.search, "mode") ELSE <<>>
    IN  [v |-> mode,
         errs |-> IF ~Includes(VALID_MODES, mode) THEN <<ErrMode>> ELSE <<>>]

ModeStep(req) ==
    LET mode == IF Has(req.search, "mode") THEN toLowerCase(Get(req.search, "mode")) ELSE <<>>
    IN  [v |-> mode,
         errs |-> IF ~Includes(VALID_MODES, mode) THEN <<ErrMode>> ELSE <<>>]

BgStep(req) ==
    IF Has(req.search, "bg")
    THEN LET bg == getColor(toLowerCase(Get(req.search, "bg")))
         IN  IF bg.ok THEN [v |-> bg.rgb, errs |-> <<>>]
             ELSE [v |-> <<>>, errs |-> <<ErrBg>>]
    ELSE [v |-> <<>>, errs |-> <<>>]

\* a validator that returns at the first field in error
PushAll_failFast(format, quality, origin, width, height, size, dx, dy, scale, mode, bg) ==
    LET parts == <<format, quality, origin, width, height, size, dx, dy, scale, mode, bg>>
    IN  IF \A i \in 1..Len(parts) : parts[i] = <<>> THEN <<>>
        ELSE parts[CHOOSE i \in 1..Len(parts) :
                       parts[i] # <<>> /\ \A j \in 1..(i - 1) : parts[j] = <<>>]

\* lines 65-78: the params object before any parameter is read
DefaultParams ==
    [bg |-> <<>>, dx |-> Num(0), dy |-> Num(0), errors |-> <<>>, format |-> <<>>,
     height |-> Num(0), mode |-> <<>>, origin |-> [set |-> FALSE, href |-> <<>>],
     quality |-> Num(90), scale |-> Num(1), width |-> Num(0)]

\* the errors array after all pushes, in the order of the statements
PushAll(format, quality, origin, width, height, size, dx, dy, scale, mode, bg) ==
    format \o quality \o origin \o width \o height \o size \o dx \o dy \o scale \o mode \o bg

getParams(req) ==
    LET format == FormatStep(req)
        quality == QualityStep(req)
        origin == OriginStep(req)
        width == WidthStep(req)
        height == HeightStep(req)
        dx == DxStep(req)
        dy == DyStep(req)
        scale == ScaleStep(req)
        mode == ModeStep(req)
        bg == BgStep(req)
    IN  [bg |-> bg.v, dx |-> dx.v, dy |-> dy.v,
         errors |-> PushAll(format.errs, quality.errs, origin.errs, width.errs, height.errs,
                            SizeErrs(width.v, height.v), dx.errs, dy.errs, scale.errs,
                            mode.errs, bg.errs),
         format |-> format.v, height |-> height.v, mode |-> mode.v, origin |-> origin.v,
         quality |-> quality.v, scale |-> scale.v, width |-> width.v]

(***************************************************************************)
(* Responses, cache keys and the collaborators                             *)
(***************************************************************************)
\* a Response: status, Content-type, and the body as text (a sequence of
\* message entries) or as bytes; NoRes stands for undefined
NoRes == [status |-> 0, ctype |-> "", text |-> <<>>, bytes |-> <<>>]

TextResponse(text, status) ==
    [status |-> status, ctype |-> "text/plain", text |-> text, bytes |-> <<>>]

CRLF == Err("\r\n")

\* errors.join("\r\n")
RECURSIVE Join(_)
Join(errors) ==
    IF Len(errors) <= 1 THEN errors
    ELSE <<errors[1], CRLF>> \o Join(Drop(errors, 1))

\* a gate that lets every method through
IsGet_anyMethod(req) == TRUE

\* line 8: the method gate
IsGet(req) == req.method = "GET"

\* a validator result that is never taken to have errors
HasErrors_never(params) == FALSE

\* line 22: params.errors.length
HasErrors(params) == Len(params.errors) # 0

\* lines 9-10
MethodNotAllowed == TextResponse(<<Err("http method not allowed")>>, 405)

\* lines 23-24
BadRequest(errors) == TextResponse(Join(errors), 400)

\* a catch block that answers 500
CaughtResponse_status500(e) == TextResponse(<<e>>, 500)

\* lines 55-56: e.toString() as the body
CaughtResponse(e) == TextResponse(<<e>>, 200)

\* the key of a cache entry is the URL of the request.  An inbound URL is held
\* parsed (pathname, search), an origin URL as its href; an inbound URL is
\* never an origin URL, since it holds the origin as one of its query values
\* a response-cache key that leaves the query string out
ReqKey_pathOnly(req) == [href |-> <<>>, pathname |-> req.pathname, search |-> <<>>]

ReqKey(req) == [href |-> <<>>, pathname |-> req.pathname, search |-> req.search]

\* line 30: new Request(params.origin.toString(), req)
OriginKey(params) == [href |-> params.origin.href, pathname |-> <<>>, search |-> <<>>]

\* cache.match(key): the entry, or NoRes for undefined
Match(c, key) == IF key \in DOMAIN c THEN c[key] ELSE NoRes

\* cache.put(key, res)
Put(c, key, res) == [k \in DOMAIN c \cup {key} |-> IF k = key THEN res ELSE c[k]]

AllChars == DigitChars \o LowerCase \o UpperCase \o <<":", "/", ".", "-", "_", " ">>

CharCode(c) == CHOOSE i \in 1..Len(AllChars) : AllChars[i] = c

\* the origin server's answer to fetch(originReq): the image stored at href
OriginResponse(href) ==
    [status |-> 200, ctype |-> "image/source", text |-> <<>>,
     bytes |-> [i \in 1..Len(href) |-> CharCode(href[i])]]

NumberByte(x) == IF x.k = "num" THEN x.n \div x.d ELSE 0

\* process_image(data, params) when it returns: the transformed bytes, which
\* depend on the data and on the transform, then one byte for the index of
\* the output format in VALID_FORMATS (the requested format, else png)
process_image(data, params) ==
    data \o <<NumberByte(params.width), NumberByte(params.height), NumberByte(params.quality)>>
         \o <<IF Includes(VALID_FORMATS, params.format)
              THEN (CHOOSE i \in 1..Len(VALID_FORMATS) : VALID_FORMATS[i] = params.format) - 1
              ELSE 0>>

FetchError == Err("TypeError: fetch failed")

BodyError == Err("TypeError: body stream failed")

EngineError == Err("Error: process_image failed")

\* lines 45-48: the response built from the engine's output
SuccessResponse(output) ==
    LET output_format == IF output = <<>> THEN -1 ELSE output[Len(output)]
        format == IF output_format \in 0..(Len(VALID_FORMATS) - 1)
                  THEN VALID_FORMATS[output_format + 1] ELSE <<>>
    IN  [status |-> 200, ctype |-> getMimeType(format), text |-> <<>>,
         bytes |-> SubSeq(output, 1, Len(output) - 1)]

(***************************************************************************)
(* The requests drawn by the handler's specification                       *)
(***************************************************************************)
Q(name, value) == [name |-> name, value |-> value]

Path_png == <<"/","i",".","p","n","g">>

Origin_a == <<"h","t","t","p",":","/","/","a">>

Origin_A == <<"H","T","T","P",":","/","/","A","/">>

UrlA == <<Q("origin", Origin_a), Q("width", <<"1">>), Q("mode", Str_fit), Q("quality", <<"7","0">>)>>

UrlB == <<Q("origin", Origin_a), Q("width", <<"1">>), Q("mode", Str_fit), Q("quality", <<"8","0">>)>>

UrlNoOrigin == <<Q("width", <<"1">>), Q("mode", Str_fit), Q("quality", <<"7","0">>)>>

UrlBadOrigin == <<Q("origin", <<"a">>), Q("width", <<"1">>), Q("mode", <<"c","r","o","p">>)>>

Request(method, search) == [method |-> method, pathname |-> Path_png, search |-> search]

Requests ==
    { Request("GET", UrlA), Request("GET", UrlB),
      Request("GET", UrlNoOrigin), Request("GET", UrlBadOrigin),
      Request("POST", UrlA), Request("POST", UrlBadOrigin) }

NoReq == [method |-> "", pathname |-> <<>>, search |-> <<>>]

(***************************************************************************)
(* State                                                                   *)
(***************************************************************************)
\* requests in flight at once, and fetch events in one behaviour
NumSlots == 2

MaxArrivals == 2

Slots == 1..NumSlots

VARIABLES
    cache,       \* caches.default: cache key -> stored Response
    slots,       \* per in-flight handleRequest call: its locals and position
    arrivals,    \* fetch events so far
    succeeded,   \* history: requests that returned a transformed image
    fetches,     \* history: origin href -> number of fetch(originReq) calls
    wasmCalls,   \* history: number of wasm_bindgen(wasm) calls
    vreq,        \* the validator's specification: the request given to getParams
    vparams,     \* the validator's specification: [done, params, res]
    voutput,     \* the response builder's specification: what process_image returned
    vres         \* the response builder's specification: [done, res]

vars == <<cache, slots, arrivals, succeeded, fetches, wasmCalls, vreq, vparams, voutput, vres>>

\* a handleRequest call.  pc: "idle" (no call), "match" (awaiting line 15),
\* "all" (awaiting line 31), "fetch" (awaiting line 39), "body" (awaiting
\* line 43), "done" (returned res), "rejected" (its promise rejected).
\* params and originReq are the locals of lines 20 and 30 (originReq as its
\* cache key); probe and warm are the two promises of line 31.  ops, seen and
\* failed are history: the collaborator calls made, the requests that had
\* returned a transformed image when this one arrived, what was caught.
\* fetchCalls, engineCalls and bodyReads are history too: the number of
\* fetch(originReq), process_image and originRes.arrayBuffer() calls of this
\* request; cloneAt is the value of bodyReads when originRes.clone() was
\* called, -1 when it was not.
NoKey == [href |-> <<>>, pathname |-> <<>>, search |-> <<>>]

IdleSlot ==
    [pc |-> "idle", req |-> NoReq, params |-> DefaultParams, originReq |-> NoKey,
     probe |-> "none", warm |-> "none",
     originRes |-> NoRes, originResToCache |-> NoRes, res |-> NoRes,
     ops |-> {}, seen |-> {}, failed |-> "none",
     fetchCalls |-> 0, engineCalls |-> 0, bodyReads |-> 0, cloneAt |-> -1]

NoParams == [done |-> FALSE, params |-> DefaultParams, res |-> NoRes]

NoBuilt == [done |-> FALSE, res |-> NoRes]

Init ==
    /\ cache = << >>
    /\ slots = [s \in Slots |-> IdleSlot]
    /\ arrivals = 0
    /\ succeeded = {}
    /\ fetches = << >>
    /\ wasmCalls = 0
    /\ vreq = NoReq
    /\ vparams = NoParams
    /\ voutput = <<>>
    /\ vres = NoBuilt

Count(f, k) == IF k \in DOMAIN f THEN f[k] ELSE 0

Set(s, rec) == slots' = [slots EXCEPT ![s] = rec]

\* getParams on the requests the handler is given, computed once
ParamsOf == [req \in Requests \cup {NoReq} |-> getParams(req)]

OriginOf(req) == ParamsOf[req].origin.href

(***************************************************************************)
(* handleRequest                                                           *)
(***************************************************************************)
\* lines 1-15: the fetch event calls handleRequest; the method gate; else the
\* call of cache.match(req)
HandleRequest(s, req) ==
    /\ slots[s].pc = "idle"
    /\ arrivals < MaxArrivals
    /\ arrivals' = arrivals + 1
    /\ IF ~IsGet(req)
       THEN Set(s, [IdleSlot EXCEPT !.pc = "done", !.req = req, !.res = MethodNotAllowed])
       ELSE Set(s, [IdleSlot EXCEPT !.pc = "match", !.req = req, !.ops = {"cache.match(req)"},
                        !.seen = succeeded])
    /\ UNCHANGED <<cache, succeeded, fetches, wasmCalls, vreq, vparams, voutput, vres>>

\* lines 15-34: cache.match(req) resolves.  A hit is returned; on a miss the
\* request is validated, and answered 400 or taken to the Promise.all of the
\* origin-cache probe and the engine warm-up
MatchResolve(s) ==
    LET sl == slots[s]
        hit == Match(cache, ReqKey(sl.req))
        params == ParamsOf[sl.req]
    IN  /\ sl.pc = "match"
        /\ IF hit # NoRes
           THEN /\ Set(s, [sl EXCEPT !.pc = "done", !.res = hit])
                /\ UNCHANGED wasmCalls
           ELSE IF HasErrors(params)
           THEN /\ Set(s, [sl EXCEPT !.pc = "done", !.params = params,
                                 !.res = BadRequest(params.errors), !.ops = @ \cup {"getParams"}])
                /\ UNCHANGED wasmCalls
           ELSE /\ Set(s, [sl EXCEPT !.pc = "all", !.params = params,
                                 !.originReq = OriginKey(params),
                                 !.probe = "pending", !.warm = "pending",
                                 !.ops = @ \cup {"getParams", "cache.match(originReq)",
                                                 "wasm_bindgen"}])
                /\ wasmCalls' = wasmCalls + 1
        /\ UNCHANGED <<cache, arrivals, succeeded, fetches, vreq, vparams, voutput, vres>>

\* line 15: cache.match(req) rejects, and with it handleRequest
MatchReject(s) ==
    /\ slots[s].pc = "match"
    /\ Set(s, [slots[s] EXCEPT !.pc = "rejected"])
    /\ UNCHANGED <<cache, arrivals, succeeded, fetches, wasmCalls, vreq, vparams, voutput, vres>>

\* line 32: cache.match(originReq) resolves with the entry or undefined
OriginMatchResolve(s) ==
    LET sl == slots[s]
        hit == Match(cache, sl.originReq)
    IN  /\ sl.probe = "pending"
        /\ Set(s, [sl EXCEPT !.probe = IF hit # NoRes THEN "hit" ELSE "miss", !.originRes = hit])
        /\ UNCHANGED <<cache, arrivals, succeeded, fetches, wasmCalls, vreq, vparams, voutput, vres>>

\* line 32: cache.match(originReq) rejects
OriginMatchReject(s) ==
    /\ slots[s].probe = "pending"
    /\ Set(s, [slots[s] EXCEPT !.probe = "rejected"])
    /\ UNCHANGED <<cache, arrivals, succeeded, fetches, wasmCalls, vreq, vparams, voutput, vres>>

\* line 33: wasm_bindgen(wasm) resolves
WarmupResolve(s) ==
    /\ slots[s].warm = "pending"
    /\ Set(s, [slots[s] EXCEPT !.warm = "resolved"])
    /\ UNCHANGED <<cache, arrivals, succeeded, fetches, wasmCalls, vreq, vparams, voutput, vres>>

\* line 33: wasm_bindgen(wasm) rejects
WarmupReject(s) ==
    /\ slots[s].warm = "pending"
    /\ Set(s, [slots[s] EXCEPT !.warm = "rejected"])
    /\ UNCHANGED <<cache, arrivals, succeeded, fetches, wasmCalls, vreq, vparams, voutput, vres>>

\* a handler that waits for the origin-cache probe only
AwaitAll_probeOnly(s) ==
    LET sl == slots[s]
        href == sl.originReq.href
    IN  /\ sl.pc = "all"
        /\ \/ /\ sl.probe = "rejected"
              /\ Set(s, [sl EXCEPT !.pc = "rejected"])
              /\ UNCHANGED fetches
           \/ /\ sl.probe = "miss"
              /\ Set(s, [sl EXCEPT !.pc = "fetch", !.ops = @ \cup {"fetch"},
                             !.fetchCalls = @ + 1])
              /\ fetches' = [k \in DOMAIN fetches \cup {href} |-> Count(fetches, k) + IF k = href THEN 1 ELSE 0]
           \/ /\ sl.probe = "hit"
              /\ Set(s, [sl EXCEPT !.pc = "body", !.bodyReads = @ + 1])
              /\ UNCHANGED fetches
        /\ UNCHANGED <<cache, arrivals, succeeded, wasmCalls, vreq, vparams, voutput, vres>>

\* lines 31-43: the await of Promise.all ends.  It throws, outside the try,
\* once one of the two promises has rejected; once both have resolved the
\* try block starts: fetch(originReq) on a miss, else originRes.arrayBuffer()
AwaitAll(s) ==
    LET sl == slots[s]
        href == sl.originReq.href
    IN  /\ sl.pc = "all"
        /\ \/ /\ sl.probe = "rejected" \/ sl.warm = "rejected"
              /\ Set(s, [sl EXCEPT !.pc = "rejected"])
              /\ UNCHANGED fetches
           \/ /\ sl.probe = "miss" /\ sl.warm = "resolved"
              /\ Set(s, [sl EXCEPT !.pc = "fetch", !.ops = @ \cup {"fetch"},
                             !.fetchCalls = @ + 1])
              /\ fetches' = [k \in DOMAIN fetches \cup {href} |-> Count(fetches, k) + IF k = href THEN 1 ELSE 0]
           \/ /\ sl.probe = "hit" /\ sl.warm = "resolved"
              /\ Set(s, [sl EXCEPT !.pc = "body", !.bodyReads = @ + 1])
              /\ UNCHANGED fetches
        /\ UNCHANGED <<cache, arrivals, succeeded, wasmCalls, vreq, vparams, voutput, vres>>

\* lines 39-43: fetch resolves; the response is cloned, then its body is read
FetchResolve(s) ==
    LET sl == slots[s]
        originRes == OriginResponse(sl.originReq.href)
    IN  /\ sl.pc = "fetch"
        /\ Set(s, [sl EXCEPT !.pc = "body", !.originRes = originRes,
                       !.originResToCache = originRes, !.cloneAt = sl.bodyReads,
                       !.bodyReads = @ + 1])
        /\ UNCHANGED <<cache, arrivals, succeeded, fetches, wasmCalls, vreq, vparams, voutput, vres>>

\* a handler that fetches again when the fetch has failed
FetchReject_retry(s) ==
    /\ slots[s].pc = "fetch"
    /\ Set(s, [slots[s] EXCEPT !.fetchCalls = @ + 1])
    /\ UNCHANGED <<cache, arrivals, succeeded, fetches, wasmCalls, vreq, vparams, voutput, vres>>

\* lines 39, 54-58: fetch rejects and the catch block answers
FetchReject(s) ==
    /\ slots[s].pc = "fetch"
    /\ Set(s, [slots[s] EXCEPT !.pc = "done", !.res = CaughtResponse(FetchError), !.failed = "fetch"])
    /\ UNCHANGED <<cache, arrivals, succeeded, fetches, wasmCalls, vreq, vparams, voutput, vres>>

\* lines 43, 54-58: arrayBuffer() rejects and the catch block answers
BodyReject(s) ==
    /\ slots[s].pc = "body"
    /\ Set(s, [slots[s] EXCEPT !.pc = "done", !.res = CaughtResponse(BodyError), !.failed = "body"])
    /\ UNCHANGED <<cache, arrivals, succeeded, fetches, wasmCalls, vreq, vparams, voutput, vres>>

\* a success branch that does not store the response
PutBoth_originOnly(c, req, res, originReq, originResToCache) ==
    IF originResToCache # NoRes
    THEN Put(c, originReq, originResToCache)
    ELSE c

\* a success branch that does not store the origin response
PutBoth_responseOnly(c, req, res, originReq, originResToCache) == Put(c, ReqKey(req), res)

\* a success branch that stores under originReq whether or not it fetched
PutCalls_unconditional(req, res, originReq, originResToCache) ==
    <<[op |-> "cache.put(req)", key |-> ReqKey(req), res |-> res],
      [op |-> "cache.put(originReq)", key |-> originReq, res |-> originResToCache]>>

\* lines 50-53: the cache.put calls of the success branch, in order
PutCalls(req, res, originReq, originResToCache) ==
    <<[op |-> "cache.put(req)", key |-> ReqKey(req), res |-> res]>>
    \o IF originResToCache # NoRes
       THEN <<[op |-> "cache.put(originReq)", key |-> originReq, res |-> originResToCache]>>
       ELSE <<>>

\* lines 50-53: the cache after the cache.put calls of the success branch
PutBoth(c, req, res, originReq, originResToCache) ==
    LET calls == PutCalls(req, res, originReq, originResToCache)
        c1 == Put(c, calls[1].key, calls[1].res)
    IN  IF Len(calls) > 1
        THEN Put(c1, calls[2].key, calls[2].res)
        ELSE c1

\* lines 43-53, 58: arrayBuffer() resolves, process_image returns, the
\* response is built, stored and returned
TransformOk(s) ==
    LET sl == slots[s]
        output == process_image(sl.originRes.bytes, sl.params)
        res == SuccessResponse(output)
        calls == PutCalls(sl.req, res, sl.originReq, sl.originResToCache)
    IN  /\ sl.pc = "body"
        /\ cache' = PutBoth(cache, sl.req, res, sl.originReq, sl.originResToCache)
        /\ Set(s, [sl EXCEPT !.pc = "done", !.res = res, !.engineCalls = @ + 1,
                       !.ops = @ \cup {"process_image"} \cup { call.op : call \in Range(calls) }])
        /\ succeeded' = succeeded \cup {sl.req}
        /\ UNCHANGED <<arrivals, fetches, wasmCalls, vreq, vparams, voutput, vres>>

\* a catch block that stores its answer under the request
TransformThrows_storesAnswer(s) ==
    /\ slots[s].pc = "body"
    /\ Set(s, [slots[s] EXCEPT !.pc = "done", !.res = CaughtResponse(EngineError),
                    !.ops = @ \cup {"process_image"}, !.engineCalls = @ + 1,
                    !.failed = "engine"])
    /\ cache' = Put(cache, ReqKey(slots[s].req), CaughtResponse(EngineError))
    /\ UNCHANGED <<arrivals, succeeded, fetches, wasmCalls, vreq, vparams, voutput, vres>>

\* lines 43-44, 54-58: arrayBuffer() resolves, process_image throws and the
\* catch block answers
TransformThrows(s) ==
    /\ slots[s].pc = "body"
    /\ Set(s, [slots[s] EXCEPT !.pc = "done", !.res = CaughtResponse(EngineError),
                    !.ops = @ \cup {"process_image"}, !.engineCalls = @ + 1,
                    !.failed = "engine"])
    /\ UNCHANGED <<cache, arrivals, succeeded, fetches, wasmCalls, vreq, vparams, voutput, vres>>

\* line 2: respondWith has its answer (a response or a rejection), and the
\* call is over
Respond(s) ==
    /\ slots[s].pc \in {"done", "rejected"}
    /\ slots[s].probe # "pending"
    /\ slots[s].warm # "pending"
    /\ Set(s, IdleSlot)
    /\ UNCHANGED <<cache, arrivals, succeeded, fetches, wasmCalls, vreq, vparams, voutput, vres>>

Next ==
    \E s \in Slots :
        \/ \E req \in Requests : HandleRequest(s, req)
        \/ MatchResolve(s)
        \/ MatchReject(s)
        \/ OriginMatchResolve(s)
        \/ OriginMatchReject(s)
        \/ WarmupResolve(s)
        \/ WarmupReject(s)
        \/ AwaitAll(s)
        \/ FetchResolve(s)
        \/ FetchReject(s)
        \/ BodyReject(s)
        \/ TransformOk(s)
        \/ TransformThrows(s)
        \/ Respond(s)

Spec == Init /\ [][Next]_vars

(***************************************************************************)
(* The validator's specification: getParams and the branch on its errors   *)
(* (lines 20-26), applied to requests drawn from the sets below.  A field  *)
(* of an input is absent (<<>>) or present with a value (<<value>>).       *)
(***************************************************************************)
Absent == <<>>

Present(value) == <<value>>

Param(name, field) == IF field = Absent THEN <<>> ELSE <<Q(name, field[1])>>

MkRequest(pathname, quality, origin, width, height, dx, dy, scale, mode, bg) ==
    [method |-> "GET", pathname |-> pathname,
     search |-> Param("quality", quality) \o Param("origin", origin) \o Param("width", width)
                \o Param("height", height) \o Param("dx", dx) \o Param("dy", dy)
                \o Param("scale", scale) \o Param("mode", mode) \o Param("bg", bg)]

PathValues == { <<"/","i">>, Path_png, <<"/","i",".","G","I","F">> }

QualityValues == { Absent, Present(<<"7","0">>), Present(<<"1","5","0">>) }

OriginValues == { Absent, Present(Origin_a), Present(<<"a">>) }

WidthValues == { Absent, Present(<<"1","0">>), Present(<<"-","1">>) }

HeightValues == { Absent, Present(<<"0">>), Present(<<"x">>) }

DxValues == { Absent, Present(<<"5">>) }

DyValues == { Absent, Present(<<"x">>) }

ScaleValues == { Absent, Present(<<"0">>) }

ModeValues == { Absent, Present(<<"F","I","T">>), Present(<<"c","r","o","p">>) }

BgValues == { Absent, Present(<<"f","0","0">>), Present(<<"f","f">>) }

\* every combination of the values above
CoreInputs ==
    { MkRequest(p, q, o, w, h, dx, dy, sc, m, bg) :
        p \in PathValues, q \in QualityValues, o \in OriginValues, w \in WidthValues,
        h \in HeightValues, dx \in DxValues, dy \in DyValues, sc \in ScaleValues,
        m \in ModeValues, bg \in BgValues }

\* further values of one field, in an otherwise valid request
MorePaths == { <<"/","i",".","P","N","G">>, <<"/","i",".","j","p","e","g">>, <<"/","i",".">>,
               <<"/","a",".","b","/","c">> }

MoreOrigins == { Present(Origin_A), Present(<<"h",":","a">>), Present(<<"h","t","t","p",":">>),
                 Present(<<>>), Present(<<"/","/","a">>) }

MoreModes == { Present(Str_fill), Present(Str_fit), Present(Str_limit), Present(<<"L","i","m","i","T">>),
               Present(<<>>), Present(<<"f","i","t","s">>), Present(<<"f","i">>) }

MoreQualities == { Present(<<"a","b","c">>), Present(<<>>), Present(<<"4","0">>), Present(<<"1","0","0">>),
                   Present(<<"3","9">>), Present(<<"1","0","1">>), Present(<<"7","0","x">>),
                   Present(<<"-","5">>) }

MoreBgs == { Present(<<"z","z","z","z","z","z">>), Present(<<"f","f","0","0","0","0">>),
             Present(<<"0","0","0">>), Present(<<"1","2","3","4","5","6">>), Present(<<"A","B","C">>),
             Present(<<"g","0","0">>), Present(<<"f","0","0","0">>), Present(<<>>) }

MoreOffsets == { Present(<<"0",".","5">>), Present(<<"-","2">>), Present(<<"-","1">>), Present(<<"1">>),
                 Present(<<"1","1">>), Present(<<"a","b","c">>), Present(<<>>),
                 Present(<<"I","n","f","i","n","i","t","y">>) }

MoreInputs ==
    { MkRequest(Path_png, q, Present(Origin_a), Present(<<"1","0">>), Absent, Absent, Absent,
                Absent, Present(Str_fit), Absent) : q \in MoreQualities }
    \cup { MkRequest(Path_png, Absent, Present(Origin_a), Present(<<"1","0">>), Absent, Absent,
                     Absent, Absent, Present(Str_fit), bg) : bg \in MoreBgs }
    \cup { MkRequest(Path_png, Absent, Present(Origin_a), Present(<<"1","0">>), Absent, x, Absent,
                     Absent, Present(Str_fit), Absent) : x \in MoreOffsets }
    \cup { MkRequest(Path_png, Absent, Present(Origin_a), Present(<<"1","0">>), Absent, Absent, x,
                     Absent, Present(Str_fit), Absent) : x \in MoreOffsets }
    \cup { MkRequest(Path_png, Absent, Present(Origin_a), Present(<<"1","0">>), Absent, Absent,
                     Absent, x, Present(Str_fit), Absent) : x \in MoreOffsets }
    \cup { MkRequest(p, Absent, Present(Origin_a), Present(<<"1","0">>), Absent, Absent, Absent,
                Absent, Present(Str_fit), Absent) : p \in MorePaths }
    \cup { MkRequest(Path_png, Absent, o, Present(<<"1","0">>), Absent, Absent, Absent,
                     Absent, Present(Str_fit), Absent) : o \in MoreOrigins }
    \cup { MkRequest(Path_png, Absent, Present(Origin_a), Present(<<"1","0">>), Absent, Absent,
                     Absent, Absent, m, Absent) : m \in MoreModes }

ValidatorInputs == CoreInputs \cup MoreInputs

InitParams ==
    /\ cache = << >>
    /\ slots = [s \in Slots |-> IdleSlot]
    /\ arrivals = 0
    /\ succeeded = {}
    /\ fetches = << >>
    /\ wasmCalls = 0
    /\ vreq \in ValidatorInputs
    /\ vparams = NoParams
    /\ voutput = <<>>
    /\ vres = NoBuilt

\* lines 20-26: getParams(req), and the 400 response when it has errors
Validate ==
    /\ ~vparams.done
    /\ LET params == getParams(vreq)
       IN  vparams' = [done |-> TRUE, params |-> params,
                       res |-> IF HasErrors(params) THEN BadRequest(params.errors) ELSE NoRes]
    /\ UNCHANGED <<cache, slots, arrivals, succeeded, fetches, wasmCalls, vreq, voutput, vres>>

NextParams == Validate

SpecParams == InitParams /\ [][NextParams]_vars

(***************************************************************************)
(* Properties of the validator (under SpecParams)                          *)
(***************************************************************************)
\* the checks of getParams in the order of their statements, the message of
\* each, and the query parameters each reads
FieldOrder == <<"extension", "quality", "origin", "width", "height", "size",
                "dx", "dy", "scale", "mode", "bg">>

FieldMsg(f) ==
    CASE f = "extension" -> ErrExt(<<>>).msg
      [] f = "quality" -> ErrQuality.msg
      [] f = "origin" -> ErrOrigin.msg
      [] f = "width" -> ErrWidth.msg
      [] f = "height" -> ErrHeight.msg
      [] f = "size" -> ErrSize.msg
      [] f = "dx" -> ErrDx.msg
      [] f = "dy" -> ErrDy.msg
      [] f = "scale" -> ErrScale.msg
      [] f = "mode" -> ErrMode.msg
      [] f = "bg" -> ErrBg.msg

FieldReads(f) ==
    IF f = "size" THEN {"width", "height"} ELSE IF f = "extension" THEN {} ELSE {f}

\* a request without any error
Baseline ==
    MkRequest(Path_png, Absent, Present(Origin_a), Present(<<"1","0">>), Absent, Absent,
              Absent, Absent, Present(Str_fit), Absent)

\* the request that has field f as req has it, and every other field as Baseline
Isolate(req, f) ==
    LET Mine(q) == q.name \in FieldReads(f)
        Others(q) == q.name \notin FieldReads(f)
    IN  [method |-> "GET",
         pathname |-> IF f = "extension" THEN req.pathname ELSE Baseline.pathname,
         search |-> SelectSeq(req.search, Mine) \o SelectSeq(Baseline.search, Others)]

IsolatedInputs == { Isolate(req, f) : req \in ValidatorInputs, f \in Range(FieldOrder) }

\* the errors getParams gives for each isolated request
IsolatedErrors == [req \in IsolatedInputs |-> getParams(req).errors]

\* the entries of errors that carry the message of field f
ErrorsOf(errors, f) ==
    LET OfField(e) == e.msg = FieldMsg(f)
    IN  SelectSeq(errors, OfField)

Position(msg) == CHOOSE i \in 1..Len(FieldOrder) : FieldMsg(FieldOrder[i]) = msg

\* C8: getParams checks every field independently and reports every violation:
\* the errors of a request hold, for each field, exactly the entries that the
\* field gives when every other field is valid; they come in the fixed order of
\* the fields; and the 400 body holds all of them.
C8_AllViolationsReported ==
    vparams.done =>
        LET errors == vparams.params.errors
        IN  /\ \A f \in Range(FieldOrder) :
                   ErrorsOf(errors, f) = ErrorsOf(IsolatedErrors[Isolate(vreq, f)], f)
            /\ \A i, j \in 1..Len(errors) :
                   i < j => Position(errors[i].msg) < Position(errors[j].msg)
            /\ Len(errors) # 0 =>
                   /\ vparams.res.status = 400
                   /\ vparams.res.ctype = "text/plain"
                   /\ vparams.res.text = Join(errors)
                   /\ \A i \in 1..Len(errors) : errors[i] \in Range(vparams.res.text)

\* a request with the extension, quality, origin, width, height, dy, mode and bg
\* all in error has the eight messages in its 400 body
C8_Witness ==
    /\ vparams.done
    /\ [i \in 1..Len(vparams.params.errors) |-> vparams.params.errors[i].msg]
           = <<FieldMsg("extension"), FieldMsg("quality"), FieldMsg("origin"), FieldMsg("width"),
               FieldMsg("height"), FieldMsg("dy"), FieldMsg("mode"), FieldMsg("bg")>>
    /\ Len(vparams.res.text) = 15

\* c is the letter l (a lower-case letter) in either case
SameLetter(c, l) ==
    c = l \/ \E i \in 1..Len(LowerCase) : LowerCase[i] = l /\ UpperCase[i] = c

\* the request has a mode parameter that spells fill, fit or limit in any case
SpellsValidMode(req) ==
    /\ Has(req.search, "mode")
    /\ LET v == Get(req.search, "mode")
       IN  \E m \in {Str_fill, Str_fit, Str_limit} :
               Len(v) = Len(m) /\ \A i \in 1..Len(m) : SameLetter(v[i], m[i])

\* C10: errors holds the mode message if and only if the mode parameter is
\* absent or, lower-cased, is none of fill, fit, limit.
C10_ModeErrorIffNotValidMode ==
    vparams.done =>
        ((ErrMode \in Range(vparams.params.errors)) <=> ~SpellsValidMode(vreq))

\* a request without a mode parameter has the mode message and an empty mode
C10_Witness ==
    /\ vparams.done
    /\ ~Has(vreq.search, "mode")
    /\ vparams.params.mode = <<>>
    /\ ErrMode \in Range(vparams.params.errors)

\* a mode written in upper case is accepted
C10_WitnessUpperCase ==
    /\ vparams.done
    /\ Has(vreq.search, "mode")
    /\ Get(vreq.search, "mode") = <<"F","I","T">>
    /\ ErrMode \notin Range(vparams.params.errors)

(***************************************************************************)
(* Properties of handleRequest (under Spec)                                *)
(***************************************************************************)
GetA == Request("GET", UrlA)

GetB == Request("GET", UrlB)

\* the calls a request makes before and in its validation
ValidationOps == {"cache.match(req)", "getParams"}

\* C1: a GET request that missed the response cache and whose errors are not
\* empty is answered 400, text/plain, with the errors as its body, and makes no
\* engine call, warm-up, origin-cache probe, origin fetch or cache write.
C1_ErrorsNeverReachEngine ==
    \A s \in Slots :
        LET sl == slots[s]
            errors == ParamsOf[sl.req].errors
        IN  (sl.req.method = "GET" /\ Len(errors) # 0) =>
                /\ sl.pc \in {"match", "done", "rejected"}
                /\ sl.probe = "none" /\ sl.warm = "none"
                /\ sl.ops \subseteq ValidationOps
                /\ sl.originRes = NoRes /\ sl.originResToCache = NoRes
                /\ "getParams" \in sl.ops =>
                       /\ sl.pc = "done"
                       /\ sl.res.status = 400
                       /\ sl.res.ctype = "text/plain"
                       /\ sl.res.text = Join(errors)

\* a request with two errors has been answered 400 after a cache miss, while the
\* cache holds entries of another request
C1_Witness ==
    \E s \in Slots :
        /\ slots[s].pc = "done"
        /\ slots[s].ops = ValidationOps
        /\ Len(ParamsOf[slots[s].req].errors) = 2
        /\ slots[s].res.status = 400
        /\ Len(slots[s].res.text) = 3
        /\ DOMAIN cache # {}

\* the request of the slot arrived after an identical request had returned its
\* transformed image
Late(sl) == \E r \in sl.seen : ReqKey(r) = ReqKey(sl.req)

\* the request of the slot arrived after a request for the same origin URL had
\* returned its transformed image
LateOrigin(sl) == \E r \in sl.seen : OriginOf(r) = OriginOf(sl.req)

\* C2: a GET request that arrives after an identical GET request has returned
\* its transformed image is answered by the response-cache probe with the cached
\* response, and never invokes the engine.
C2_RepeatedRequestServedFromCache ==
    \A s \in Slots :
        LET sl == slots[s]
        IN  Late(sl) =>
                /\ sl.pc \in {"match", "done", "rejected"}
                /\ sl.ops = {"cache.match(req)"}
                /\ ReqKey(sl.req) \in DOMAIN cache
                /\ sl.pc = "done" =>
                       /\ sl.res = cache[ReqKey(sl.req)]
                       /\ sl.res.status = 200
                       /\ sl.res.bytes # <<>>

C2_Witness ==
    \E s \in Slots :
        /\ Late(slots[s])
        /\ slots[s].pc = "done"
        /\ slots[s].res = cache[ReqKey(slots[s].req)]
        /\ "process_image" \notin slots[s].ops

\* C3 as claimed: in every sequence and interleaving of requests an origin URL
\* is fetched at most once.
C3_OriginFetchedAtMostOnce ==
    \A href \in DOMAIN fetches : fetches[href] <= 1

\* C3 as amended: a request that arrives after a request for the same origin URL
\* has returned its transformed image does not fetch the origin; its origin-cache
\* probe, when it resolves, is a hit.
C3_NoFetchAfterSuccess ==
    \A s \in Slots :
        LET sl == slots[s]
        IN  LateOrigin(sl) =>
                /\ "fetch" \notin sl.ops
                /\ sl.pc # "fetch"
                /\ sl.originResToCache = NoRes
                /\ sl.probe \in {"none", "pending", "hit", "rejected"}
                /\ OriginKey(ParamsOf[sl.req]) \in DOMAIN cache

\* a request with other transform parameters has been transformed from the
\* origin cache
C3_Witness ==
    \E s \in Slots :
        /\ LateOrigin(slots[s])
        /\ ~Late(slots[s])
        /\ slots[s].probe = "hit"
        /\ slots[s].pc = "done"
        /\ "process_image" \in slots[s].ops
        /\ slots[s].res.status = 200
        /\ slots[s].res.bytes # <<>>

\* the two requests have the same method and path and differ in the value of
\* exactly one query parameter
DifferInOneParameter(r1, r2) ==
    /\ r1.method = r2.method
    /\ r1.pathname = r2.pathname
    /\ Len(r1.search) = Len(r2.search)
    /\ \A i \in 1..Len(r1.search) : r1.search[i].name = r2.search[i].name
    /\ Cardinality({ i \in 1..Len(r1.search) : r1.search[i].value # r2.search[i].value }) = 1

\* the response of a successful transform of the request
TransformedResponse(req) ==
    SuccessResponse(process_image(OriginResponse(OriginOf(req)).bytes, ParamsOf[req]))

OriginEntries == { k \in DOMAIN cache : k.href # <<>> }

\* C4: two successful GET requests for one origin that differ in one query
\* parameter leave two response-cache entries, each holding its own request's
\* response, and one origin-cache entry; and a response served from the cache is
\* the response of the request it is served to.
C4_DistinctResponseEntriesOneOriginEntry ==
    /\ \A r1, r2 \in succeeded :
           (DifferInOneParameter(r1, r2) /\ OriginOf(r1) = OriginOf(r2)) =>
               /\ ReqKey(r1) # ReqKey(r2)
               /\ {ReqKey(r1), ReqKey(r2)} \subseteq DOMAIN cache
               /\ cache[ReqKey(r1)] = TransformedResponse(r1)
               /\ cache[ReqKey(r2)] = TransformedResponse(r2)
               /\ ParamsOf[r1] # ParamsOf[r2] => cache[ReqKey(r1)] # cache[ReqKey(r2)]
               /\ OriginEntries = {OriginKey(ParamsOf[r1])}
    /\ \A s \in Slots :
           (slots[s].pc = "done" /\ slots[s].ops = {"cache.match(req)"}) =>
               slots[s].res = TransformedResponse(slots[s].req)

\* the requests with quality 70 and quality 80 have both been transformed
C4_Witness ==
    /\ {GetA, GetB} \subseteq succeeded
    /\ \E s, t \in Slots : slots[s].req = GetA /\ slots[t].req = GetB
    /\ Cardinality(DOMAIN cache) = 3
    /\ cache[ReqKey(GetA)] # cache[ReqKey(GetB)]
    /\ Cardinality(OriginEntries) = 1

\* C5: a request whose method is not GET is answered 405, text/plain, and makes
\* no call of the cache, the validator, the engine or the origin.
C5_NonGetIs405 ==
    \A s \in Slots :
        LET sl == slots[s]
        IN  (sl.pc # "idle" /\ sl.req.method # "GET") =>
                /\ sl.pc = "done"
                /\ sl.res.status = 405
                /\ sl.res.ctype = "text/plain"
                /\ sl.res.text # <<>>
                /\ sl.ops = {}
                /\ sl.probe = "none" /\ sl.warm = "none"

\* a POST to a URL whose GET response is in the cache is answered 405
C5_Witness ==
    \E s \in Slots :
        /\ slots[s].req.method = "POST"
        /\ slots[s].pc = "done"
        /\ slots[s].res.status = 405
        /\ ReqKey(slots[s].req) \in DOMAIN cache

\* C6: a valid GET request whose origin fetch or whose transform fails is
\* answered 200, text/plain, with the failure's description as its body.
C6_ProcessingFailureIs200Text ==
    \A s \in Slots :
        LET sl == slots[s]
        IN  sl.failed # "none" =>
                /\ sl.pc = "done"
                /\ sl.res.status = 200
                /\ sl.res.ctype = "text/plain"
                /\ sl.res.bytes = <<>>
                /\ sl.res.text = <<CASE sl.failed = "fetch" -> FetchError
                                     [] sl.failed = "body" -> BodyError
                                     [] sl.failed = "engine" -> EngineError>>

\* one request's fetch has failed and another request's transform has failed
C6_Witness ==
    \E s, t \in Slots :
        /\ slots[s].failed = "fetch" /\ slots[s].res.status = 200
        /\ slots[t].failed = "engine" /\ slots[t].res.status = 200

\* C7 as claimed: a request whose origin-cache probe failed while the warm-up
\* succeeded is not failed; it goes on as after a miss.
C7_ProbeFailureDegradesToMiss ==
    \A s \in Slots :
        (slots[s].probe = "rejected" /\ slots[s].warm = "resolved") =>
            slots[s].pc # "rejected"

\* the origin parameter is missing or is no absolute URL
OriginInvalid(req) ==
    ~Has(req.search, "origin") \/ ~ParseURL(Get(req.search, "origin")).ok

QualityError(errors) == ErrQuality \in Range(errors)

\* C11: a present quality gives the quality error exactly when it does not
\* parse as an integer or parses to a value outside 40..100, and gives none
\* inside 40..100; hence params without errors never carry a quality that is
\* not a number.
C11_QualityErrorIffNotInRange ==
    (vparams.done /\ Has(vreq.search, "quality")) =>
        LET quality == parseInt(Get(vreq.search, "quality"), 10)
            inRange == quality.k = "num" /\ quality.n >= 40 /\ quality.n <= 100
        IN  /\ QualityError(vparams.params.errors) <=> ~inRange
            /\ ~HasErrors(vparams.params) => vparams.params.quality.k = "num"

\* the two hexadecimal digits hi, lo as a number 0..255
HexPair(hi, lo) == Num(DigitVal(hi, 16) * 16 + DigitVal(lo, 16))

WellFormedHex(str) == Len(str) \in {3, 6} /\ \A i \in 1..Len(str) : str[i] \in HexDigits

\* the (R, G, B) triple a well-formed 3- or 6-digit hex string denotes
ExpectedColor(str) ==
    IF Len(str) = 3
    THEN <<HexPair(str[1], str[1]), HexPair(str[2], str[2]), HexPair(str[3], str[3])>>
    ELSE <<HexPair(str[1], str[2]), HexPair(str[3], str[4]), HexPair(str[5], str[6])>>

\* C12: a present bg that is a well-formed 3- or 6-digit hex string gives no
\* bg error and is stored as its (R, G, B) triple, 3 digits being doubled and
\* 6 digits split into pairs; any other bg gives the bg error and leaves bg
\* empty.
C12_BgIsParsedColorOrError ==
    (vparams.done /\ Has(vreq.search, "bg")) =>
        LET str == Get(vreq.search, "bg")
            bgError == ErrBg \in Range(vparams.params.errors)
        IN  IF WellFormedHex(str)
            THEN ~bgError /\ vparams.params.bg = ExpectedColor(str)
            ELSE bgError /\ vparams.params.bg = <<>>

(***************************************************************************)
(* The dx, dy and scale checks (lines 128-147).                            *)
(***************************************************************************)
OffsetFields == {"dx", "dy", "scale"}

OffsetError(f) == IF f = "dx" THEN ErrDx ELSE IF f = "dy" THEN ErrDy ELSE ErrScale

OffsetValue(params, f) ==
    IF f = "dx" THEN params.dx ELSE IF f = "dy" THEN params.dy ELSE params.scale

\* C18: the dx, dy and scale checks are permissive: a present value is kept in
\* params as parseFloat gives it, a value that parses to a finite number gives
\* no error whether or not it is in the range the message names, and the error
\* of the field is given only when the value does not parse.
C18_OffsetChecksArePermissive ==
    vparams.done =>
        \A f \in OffsetFields :
            Has(vreq.search, f) =>
                LET x == parseFloat(Get(vreq.search, f))
                    err == OffsetError(f) \in Range(vparams.params.errors)
                IN  /\ OffsetValue(vparams.params, f) = x
                    /\ x.k = "num" => ~err
                    /\ err => x.k = "nan"

\* dx=5 and scale=0, both outside the ranges of their messages, in params
\* that have no error at all
C18_Witness ==
    /\ vparams.done
    /\ Has(vreq.search, "dx")
    /\ Has(vreq.search, "scale")
    /\ ~HasErrors(vparams.params)
    /\ JsGt(vparams.params.dx, Num(1))
    /\ JsEq(vparams.params.scale, Num(0))
    /\ vparams.res = NoRes

(***************************************************************************)
(* The response builder's specification: lines 45-48 applied to engine    *)
(* outputs drawn from the byte strings of length 0..MaxOutputLen.          *)
(***************************************************************************)
MaxOutputLen == 3

OutputBytes == {0, 1, 2, 3, 255}

EngineOutputs == UNION { [1..n -> OutputBytes] : n \in 0..MaxOutputLen }

InitBuild ==
    /\ cache = << >>
    /\ slots = [s \in Slots |-> IdleSlot]
    /\ arrivals = 0
    /\ succeeded = {}
    /\ fetches = << >>
    /\ wasmCalls = 0
    /\ vreq = NoReq
    /\ vparams = NoParams
    /\ voutput \in EngineOutputs
    /\ vres = NoBuilt

\* lines 45-48: the success response built from the engine's output
Build ==
    /\ ~vres.done
    /\ vres' = [done |-> TRUE, res |-> SuccessResponse(voutput)]
    /\ UNCHANGED <<cache, slots, arrivals, succeeded, fetches, wasmCalls, vreq, vparams, voutput>>

NextBuild == Build

SpecBuild == InitBuild /\ [][NextBuild]_vars

\* C13: the success response has status 200, its body is the engine's output
\* without the trailing tag byte, and its content type follows the tag: 0 gives
\* image/png, 1 and 2 both give image/jpeg, anything else gives
\* application/octet-stream.
C13_ContentTypeFollowsTag ==
    vres.done =>
        LET tag == IF voutput = <<>> THEN -1 ELSE voutput[Len(voutput)]
        IN  /\ vres.res.status = 200
            /\ vres.res.bytes = SubSeq(voutput, 1, Len(voutput) - 1)
            /\ vres.res.ctype = IF tag = 0 THEN "image/png"
                                ELSE IF tag \in {1, 2} THEN "image/jpeg"
                                ELSE "application/octet-stream"

(***************************************************************************)
(* The processing steps of one request (lines 28-58).                      *)
(***************************************************************************)
\* C14: one request calls fetch(originReq) at most once and process_image at
\* most once; once either has failed the request has returned the caught
\* error response, and the failed call was its last of that kind: a failed
\* fetch is followed by no transform either.
C14_AtMostOneFetchAndOneTransform ==
    \A s \in Slots :
        LET sl == slots[s]
        IN  /\ sl.fetchCalls <= 1
            /\ sl.engineCalls <= 1
            /\ sl.failed # "none" =>
                   /\ sl.pc = "done"
                   /\ sl.res.status = 200
                   /\ sl.res.ctype = "text/plain"
            /\ sl.failed = "fetch" =>
                   /\ sl.fetchCalls = 1
                   /\ sl.engineCalls = 0
                   /\ sl.res = CaughtResponse(FetchError)
            /\ sl.failed = "engine" =>
                   /\ sl.engineCalls = 1
                   /\ sl.res = CaughtResponse(EngineError)

\* one request whose fetch failed and one whose transform failed after its
\* fetch, both answered
C14_Witness ==
    \E s, t \in Slots :
        /\ slots[s].failed = "fetch"
        /\ slots[s].pc = "done"
        /\ slots[t].failed = "engine"
        /\ slots[t].fetchCalls = 1
        /\ slots[t].pc = "done"

\* C15: the origin-cache probe and the engine warm-up of a request are started
\* together, and the request starts neither its origin fetch nor the reading
\* and transform of the origin body before both have completed.
C15_FetchAndTransformAfterProbeAndWarmup ==
    \A s \in Slots :
        LET sl == slots[s]
        IN  /\ (sl.probe = "none") <=> (sl.warm = "none")
            /\ (sl.pc \in {"fetch", "body"} \/ sl.ops \cap {"fetch", "process_image"} # {}
                  \/ sl.fetchCalls > 0 \/ sl.bodyReads > 0 \/ sl.engineCalls > 0) =>
                   /\ sl.probe \in {"hit", "miss"}
                   /\ sl.warm = "resolved"

\* the two orders at once: one request whose probe has completed while its
\* warm-up is pending, one whose warm-up has completed while its probe is
\* pending
C15_Witness ==
    \E s, t \in Slots :
        /\ slots[s].probe = "miss"
        /\ slots[s].warm = "pending"
        /\ slots[t].probe = "pending"
        /\ slots[t].warm = "resolved"

\* C16: a request stores under originReq only when its origin-cache probe
\* missed and it fetched the origin itself, and what it stores is the clone
\* taken before the body was read; a request whose probe hit stores nothing
\* under originReq; the origin body is read once.
C16_OriginStoredOnlyAfterOwnFetch ==
    \A s \in Slots :
        LET sl == slots[s]
        IN  /\ "cache.put(originReq)" \in sl.ops =>
                   /\ sl.probe = "miss"
                   /\ sl.fetchCalls = 1
                   /\ sl.cloneAt = 0
                   /\ Match(cache, sl.originReq) = sl.originResToCache
                   /\ sl.originResToCache = OriginResponse(sl.originReq.href)
            /\ sl.probe = "hit" =>
                   /\ "cache.put(originReq)" \notin sl.ops
                   /\ sl.fetchCalls = 0
                   /\ sl.originResToCache = NoRes
            /\ sl.originResToCache # NoRes => sl.cloneAt = 0
            /\ sl.bodyReads <= 1
            /\ "process_image" \in sl.ops => sl.bodyReads = 1

\* a request that fetched and stored the origin, and a request that found it
\* in the origin cache and transformed it
C16_Witness ==
    \E s, t \in Slots :
        /\ "cache.put(originReq)" \in slots[s].ops
        /\ slots[t].probe = "hit"
        /\ "cache.put(req)" \in slots[t].ops
        /\ slots[t].originReq = slots[s].originReq

\* C17: the engine is initialized at most once, whatever the sequence or
\* interleaving of requests: wasm_bindgen(wasm) is called at most once, and no
\* two requests in flight have both called it.
C17_EngineInitializedAtMostOnce ==
    /\ wasmCalls <= 1
    /\ Cardinality({ s \in Slots : "wasm_bindgen" \in slots[s].ops }) <= 1

(***************************************************************************)
(* What the caches hold, and how a request ends.                           *)
(***************************************************************************)
IsTransformed(res) == res.status = 200 /\ res.ctype # "text/plain" /\ res.text = <<>>

\* C19: only the success branch writes the caches: a step changes the cache
\* only when a request's transform has succeeded in that step, so the 405,
\* cache-hit, 400 and caught-failure outcomes leave both caches as they were;
\* every entry stored under a request is a status-200 transformed response,
\* and a response-cache hit never returns 405, 400 or an error text.
C19_OnlySuccessWritesCaches ==
    [][ /\ cache' # cache =>
              \E s \in Slots :
                  /\ slots[s].pc = "body"
                  /\ slots'[s].pc = "done"
                  /\ slots'[s].failed = "none"
                  /\ slots'[s].engineCalls = 1
                  /\ IsTransformed(slots'[s].res)
        /\ \A k \in DOMAIN cache' : k.href = <<>> => IsTransformed(cache'[k])
        /\ \A s \in Slots :
               (slots[s].pc = "match" /\ slots'[s].pc = "done"
                  /\ Match(cache, ReqKey(slots[s].req)) # NoRes) =>
                   IsTransformed(slots'[s].res) ]_vars

\* a request answered 400 and a request whose transform failed after it had
\* fetched the origin, with nothing in either cache
C19_Witness ==
    \E s, t \in Slots :
        /\ slots[s].pc = "done"
        /\ slots[s].res.status = 400
        /\ slots[t].pc = "done"
        /\ slots[t].failed = "engine"
        /\ slots[t].fetchCalls = 1
        /\ cache = << >>

\* C20: every call of handleRequest ends with exactly one response, of status
\* 405, 400 or 200, also when the engine warm-up or a cache probe fails: its
\* promise is never rejected.
C20_EveryRequestIsAnswered ==
    \A s \in Slots :
        /\ slots[s].pc # "rejected"
        /\ slots[s].pc = "done" => slots[s].res.status \in {405, 400, 200}

=============================================================================
